---- MODULE Spec2Model ----
(***************************************************************************)
(* The UDP transport of DNS-CPP (src/src/udp.cpp): one Udp instance, the   *)
(* kernel socket behind its descriptor, the event loop's registrations and *)
(* the user-space handler that receives the responses.                     *)
(*                                                                         *)
(* Every method of Udp is an operator on a "world" record (the instance's  *)
(* members plus the kernel, loop and handler state the method acts on), so *)
(* that a method calling another one (send -> open -> notify, the          *)
(* destructor -> close, stop) is the composition of the operators.  An     *)
(* action applies one method to the current world and commits the result.  *)
(***************************************************************************)
EXTENDS Integers, Sequences, FiniteSets, TLC

VARIABLES
    alive,          \* the instance has been constructed and not yet destructed
    _fd,            \* Udp::_fd: the descriptor, negative when closed
    _identifier,    \* Udp::_identifier: the loop's token for the read interest, 0 = nullptr
    _idle,          \* Udp::_idle: the loop's token for the idle watcher, 0 = nullptr
    _responses,     \* Udp::_responses: the captured datagrams not yet delivered
    family,         \* kernel: address family (4 or 6) of the socket behind _fd, 0 = no socket
    sock,           \* kernel: the socket's receive queue
    descriptors,    \* kernel: number of descriptors the instance holds open
    readers,        \* loop: tokens of the live read-interest registrations
    idlers,         \* loop: tokens of the live idle watchers
    misuse,         \* loop: a token was removed or cancelled that was not registered
    delivered,      \* handler: the datagrams passed to onReceived(), in call order
    sendtoCalls,    \* kernel: number of sendto() calls made
    transmitted,    \* kernel: number of queries sendto() has put on the wire
    arrived,        \* kernel: number of datagrams that have reached a socket
    pc,             \* "loop": between callbacks; "handler": inside onReceived() called by idle()
    uaf,            \* a member of the instance was accessed after its destruction
    op,             \* the operation the last step performed: its name and result, what it handed to sendto(), how many datagrams it captured, whether the step before it performed the same, and that one's result
    run             \* history: the batch of the last drain into an empty queue and the idle() calls since

vars == <<alive, _fd, _identifier, _idle, _responses, family, sock, descriptors,
          readers, idlers, misuse, delivered, sendtoCalls, transmitted, arrived, pc,
          uaf, op, run>>

(***************************************************************************)
(* Bounds of the model and constants of the program.                       *)
(***************************************************************************)
\* datagrams that reach the socket in one behaviour
MaxArrivals == 2

\* sendto() calls in one behaviour
MaxSends == 2

\* the drain's cap: "while (++messages < 1024)"
MaxMessages == 1024

\* IP versions a caller passes to open() and send()
Versions == {4, 6}

\* payload sizes of the datagrams that arrive: empty, and a DNS header
PayloadSizes == {0, 12}

(***************************************************************************)
(* The world a method acts on: the members of the instance, the kernel,    *)
(* loop and handler state, and the scratch values of the call in progress  *)
(* (ret: the method's return value; failed: socket() was called and        *)
(* failed; access: the code read or wrote a member of the instance;        *)
(* messages, stopped: the drain loop's counter and its having left; dest:  *)
(* the family of the destination handed to sendto(), 0 when it was not     *)
(* called; queuedAtSend: the length of _responses when sendto() was        *)
(* called, -1 when it was not).                                            *)
(***************************************************************************)
World ==
    [alive |-> alive, fd |-> _fd, identifier |-> _identifier, idle |-> _idle,
     responses |-> _responses, family |-> family, sock |-> sock,
     descriptors |-> descriptors, readers |-> readers, idlers |-> idlers,
     misuse |-> misuse, delivered |-> delivered, sendtoCalls |-> sendtoCalls,
     transmitted |-> transmitted, pc |-> pc, ret |-> FALSE, failed |-> FALSE, access |-> FALSE,
     messages |-> 0, stopped |-> FALSE, dest |-> 0, queuedAtSend |-> -1,
     received |-> 0]

\* in-class member initialisers of Udp (include/dnscpp/udp.h): created closed,
\* no read interest, no idle watcher, nothing captured
MemberDefaults ==
    /\ _fd = -1
    /\ _identifier = 0
    /\ _idle = 0
    /\ _responses = <<>>

(***************************************************************************)
(* The event loop's registration interface (include/dnscpp/loop.h), as     *)
(* the transport consumes it.  A token is a positive number; add() and     *)
(* idle() hand out one that is not live.                                   *)
(***************************************************************************)
FreshToken(live) == CHOOSE t \in 1..(Cardinality(live) + 1) : t \notin live

\* _identifier = _core->loop()->add(_fd, 1, this)
loopAdd(w) ==
    LET t == FreshToken(w.readers)
    IN  [w EXCEPT !.readers = @ \cup {t}, !.identifier = t]

\* _core->loop()->remove(_identifier, _fd, this)
loopRemove(w) ==
    [w EXCEPT !.readers = @ \ {w.identifier},
              !.misuse = @ \/ w.identifier \notin w.readers]

\* _idle = _core->loop()->idle(this)
loopIdle(w) ==
    LET t == FreshToken(w.idlers)
    IN  [w EXCEPT !.idlers = @ \cup {t}, !.idle = t]

\* _core->loop()->cancel(_idle, this)
loopCancel(w) ==
    [w EXCEPT !.idlers = @ \ {w.idle},
              !.misuse = @ \/ w.idle \notin w.idlers]

(***************************************************************************)
(* The kernel calls.                                                       *)
(***************************************************************************)
\* _fd = socket(version == 6 ? AF_INET6 : AF_INET, SOCK_DGRAM | SOCK_CLOEXEC, 0):
\* a new socket with an empty receive queue, or -1
socket(w, version, ok) ==
    IF ok
    THEN [w EXCEPT !.fd = 3, !.family = IF version = 6 THEN 6 ELSE 4,
                   !.descriptors = @ + 1, !.sock = <<>>]
    ELSE [w EXCEPT !.fd = -1, !.failed = TRUE]

\* ::close(_fd): the descriptor is released and the socket's receive queue with it
kernelClose(w) ==
    [w EXCEPT !.descriptors = @ - 1, !.family = 0, !.sock = <<>>]

\* recvfrom(_fd, ..., MSG_DONTWAIT, ...): the size of the datagram at the head of
\* the receive queue, which it removes (an empty datagram too), or -1 when
\* the queue is empty
recvfromBytes(w) == IF w.sock = <<>> THEN -1 ELSE Head(w.sock).size

recvfrom(w) ==
    IF w.sock = <<>> THEN [w EXCEPT !.received = @ + 1]
    ELSE [w EXCEPT !.sock = Tail(@), !.received = @ + 1]

\* sendto(_fd, ..., MSG_NOSIGNAL, address, size) >= 0: one transmit; a 128-bit
\* destination on an AF_INET socket is refused, any other may succeed or fail
sendto(w, version, ok) ==
    LET sent == ok /\ ~(w.family = 4 /\ version = 6)
    IN  [w EXCEPT !.sendtoCalls = @ + 1,
                  !.transmitted = IF sent THEN @ + 1 ELSE @,
                  !.dest = version,
                  !.queuedAtSend = Len(w.responses),
                  !.ret = sent]

\* Ip(const struct sockaddr *) (include/dnscpp/ip.h), called by Response::ip():
\* throws std::runtime_error for a family that is neither AF_INET nor AF_INET6
ipThrows(response) == response.family \notin {4, 6}

(***************************************************************************)
(* The methods of Udp.                                                     *)
(***************************************************************************)
\* open() registering the descriptor before it has looked at socket()'s result
openRegistersFirst(w, version, ok) ==
    LET a == [w EXCEPT !.access = TRUE]
    IN  IF a.fd >= 0 THEN [a EXCEPT !.ret = TRUE]
        ELSE LET s == loopAdd(socket(a, version, ok))
             IN  [s EXCEPT !.ret = (s.fd >= 0)]

\* open() without its first line: it makes a socket whether or not one is open
openNotIdempotent(w, version, ok) ==
    LET s == socket([w EXCEPT !.access = TRUE], version, ok)
    IN  IF s.fd < 0 THEN [s EXCEPT !.ret = FALSE]
        ELSE [loopAdd(s) EXCEPT !.ret = TRUE]

\* bool Udp::open(int version).  setintopt() only tunes the buffer sizes of
\* the new socket and its result is ignored.
open(w, version, ok) ==
    LET a == [w EXCEPT !.access = TRUE]
    IN  IF a.fd >= 0 THEN [a EXCEPT !.ret = TRUE]
        ELSE LET s == socket(a, version, ok)
             IN  IF s.fd < 0 THEN [s EXCEPT !.ret = FALSE]
                 ELSE [loopAdd(s) EXCEPT !.ret = TRUE]

\* void Udp::stop()
stop(w) ==
    LET a == [w EXCEPT !.access = TRUE]
    IN  IF a.idle = 0 THEN a
        ELSE [loopCancel(a) EXCEPT !.idle = 0]

\* close() that leaves _fd as it was
closeKeepsFd(w) ==
    LET a == [w EXCEPT !.access = TRUE]
    IN  IF a.fd < 0 THEN [a EXCEPT !.ret = FALSE]
        ELSE [kernelClose(loopRemove(a)) EXCEPT !.identifier = 0, !.ret = TRUE]

\* close() that leaves _identifier as it was
closeKeepsToken(w) ==
    LET a == [w EXCEPT !.access = TRUE]
    IN  IF a.fd < 0 THEN [a EXCEPT !.ret = FALSE]
        ELSE [kernelClose(loopRemove(a)) EXCEPT !.fd = -1, !.ret = TRUE]

\* close() that also stops the idle watcher
closeStops(w) ==
    LET a == [w EXCEPT !.access = TRUE]
    IN  IF a.fd < 0 THEN [a EXCEPT !.ret = FALSE]
        ELSE [stop(kernelClose(loopRemove(a))) EXCEPT
                  !.fd = -1, !.identifier = 0, !.ret = TRUE]

\* close() that also drops the captured datagrams
closeDiscards(w) ==
    LET a == [w EXCEPT !.access = TRUE]
    IN  IF a.fd < 0 THEN [a EXCEPT !.ret = FALSE]
        ELSE [kernelClose(loopRemove(a)) EXCEPT
                  !.fd = -1, !.identifier = 0, !.responses = <<>>, !.ret = TRUE]

\* bool Udp::close()
close(w) ==
    LET a == [w EXCEPT !.access = TRUE]
    IN  IF a.fd < 0 THEN [a EXCEPT !.ret = FALSE]
        ELSE [kernelClose(loopRemove(a)) EXCEPT
                  !.fd = -1, !.identifier = 0, !.ret = TRUE]

\* a destructor that closes the socket and leaves the idle watcher installed
destructorOnlyCloses(w) == [close(w) EXCEPT !.alive = FALSE]

\* Udp::~Udp(): close(), then stop()
destructor(w) == [stop(close(w)) EXCEPT !.alive = FALSE]

\* bool Udp::readable() const: poll(&info, 1, 0) > 0 with POLLIN
readable(w) == w.fd >= 0 /\ w.sock # <<>>

\* the loop of notify() testing "messages++ < 1024": one iteration too many
drainStepCountsLate(w) ==
    IF w.stopped THEN w
    ELSE LET bytes == recvfromBytes(w)
             r == recvfrom(w)
         IN  IF bytes <= 0 THEN [r EXCEPT !.stopped = TRUE]
             ELSE [r EXCEPT !.responses = Append(@, Head(w.sock)),
                            !.messages = @ + 1,
                            !.stopped = ~(w.messages < MaxMessages)]

\* an iteration that puts the received message in front of the queued ones
drainStepPushesFront(w) ==
    IF w.stopped THEN w
    ELSE LET bytes == recvfromBytes(w)
             r == recvfrom(w)
         IN  IF bytes <= 0 THEN [r EXCEPT !.stopped = TRUE]
             ELSE [r EXCEPT !.responses = <<Head(w.sock)>> \o @,
                            !.messages = @ + 1,
                            !.stopped = ~(w.messages + 1 < MaxMessages)]

\* one iteration of the do-while of notify(): receive, leave the loop on a
\* size <= 0, else append to _responses and leave once ++messages reaches the cap
drainStep(w) ==
    IF w.stopped THEN w
    ELSE LET bytes == recvfromBytes(w)
             r == recvfrom(w)
         IN  IF bytes <= 0 THEN [r EXCEPT !.stopped = TRUE]
             ELSE [r EXCEPT !.responses = Append(@, Head(w.sock)),
                            !.messages = @ + 1,
                            !.stopped = ~(w.messages + 1 < MaxMessages)]

\* the do-while of notify(): iterations in order until one leaves the loop.
\* k bounds their number (evaluated by halves, so that the evaluation stays
\* shallow); an iteration that stays in the loop has removed a datagram
\* from the receive queue, so Len(sock) + 1 iterations always reach the exit.
RECURSIVE drain(_, _)
drain(w, k) ==
    IF k = 1 THEN drainStep(w)
    ELSE LET h == drain(w, k \div 2)
         IN  IF h.stopped THEN h ELSE drain(h, k - (k \div 2))

\* notify() that installs an idle watcher whether or not one is installed
notifyAlwaysArms(w) ==
    LET a == [w EXCEPT !.access = TRUE]
    IN  IF a.fd < 0 THEN a
        ELSE loopIdle(drain([a EXCEPT !.messages = 0, !.stopped = FALSE],
                            Len(a.sock) + 1))

\* notify() that installs the idle watcher only when the drain got a message
notifyArmsIfCaptured(w) ==
    LET a == [w EXCEPT !.access = TRUE]
    IN  IF a.fd < 0 THEN a
        ELSE LET d == drain([a EXCEPT !.messages = 0, !.stopped = FALSE],
                            Len(a.sock) + 1)
             IN  IF d.idle # 0 \/ d.messages = 0 THEN d ELSE loopIdle(d)

\* notify() without the check for a closed socket
notifyWithoutGuard(w) ==
    LET a == [w EXCEPT !.access = TRUE]
        d == drain([a EXCEPT !.messages = 0, !.stopped = FALSE],
                   Len(a.sock) + 1)
    IN  IF d.idle # 0 THEN d ELSE loopIdle(d)

\* void Udp::notify()
notify(w) ==
    LET a == [w EXCEPT !.access = TRUE]
    IN  IF a.fd < 0 THEN a
        ELSE LET d == drain([a EXCEPT !.messages = 0, !.stopped = FALSE],
                            Len(a.sock) + 1)
             IN  IF d.idle # 0 THEN d ELSE loopIdle(d)

\* _handler->onReceived(front.ip(), front.data(), front.size()): control passes
\* to user space, which may call back into the instance before it returns
onReceived(w, front) ==
    [w EXCEPT !.delivered = Append(@, front), !.pc = "handler"]

\* idle() that stops the watcher as soon as it has taken the last item
idleStopsWhenDrained(w) ==
    LET a == [w EXCEPT !.access = TRUE]
    IN  IF a.responses = <<>> THEN stop(a)
        ELSE LET front == Head(a.responses)
                 oneitem == [a EXCEPT !.responses = Tail(@)]
                 s == IF oneitem.responses = <<>> THEN stop(oneitem) ELSE oneitem
             IN  IF ipThrows(front) THEN s
                 ELSE onReceived(s, front)

\* idle() that splices the whole list into the local one and passes its front
idleSplicesAll(w) ==
    LET a == [w EXCEPT !.access = TRUE]
    IN  IF a.responses = <<>> THEN stop(a)
        ELSE LET front == Head(a.responses)
                 oneitem == [a EXCEPT !.responses = <<>>]
             IN  IF ipThrows(front) THEN oneitem
                 ELSE onReceived(oneitem, front)

\* idle() that reconstructs the address of _responses.front() before it
\* splices: when that throws, the item is still in the queue
idleKeepsMalformed(w) ==
    LET a == [w EXCEPT !.access = TRUE]
    IN  IF a.responses = <<>> THEN stop(a)
        ELSE LET front == Head(a.responses)
                 oneitem == [a EXCEPT !.responses = Tail(@)]
             IN  IF ipThrows(front) THEN a
                 ELSE onReceived(oneitem, front)

\* idle() that hands every queued item to the handler in one call
idleDeliversAll(w) ==
    LET a == [w EXCEPT !.access = TRUE]
    IN  IF a.responses = <<>> THEN stop(a)
        ELSE [a EXCEPT !.responses = <<>>,
                       !.delivered = @ \o SelectSeq(a.responses, LAMBDA r : ~ipThrows(r)),
                       !.pc = "handler"]

\* idle() that calls the handler on the front item and leaves it in the queue
idleLeavesFront(w) ==
    LET a == [w EXCEPT !.access = TRUE]
    IN  IF a.responses = <<>> THEN stop(a)
        ELSE LET front == Head(a.responses)
             IN  IF ipThrows(front) THEN [a EXCEPT !.responses = Tail(@)]
                 ELSE onReceived(a, front)

\* void Udp::idle(), up to and including the call of the handler
idle(w) ==
    LET a == [w EXCEPT !.access = TRUE]
    IN  IF a.responses = <<>> THEN stop(a)
        ELSE LET front == Head(a.responses)
                 oneitem == [a EXCEPT !.responses = Tail(@)]
             IN  IF ipThrows(front) THEN oneitem
                 ELSE onReceived(oneitem, front)

\* idle() that looks at the queue once more when the handler has returned
idleEpilogueStops(w) ==
    LET a == [w EXCEPT !.access = TRUE, !.pc = "loop"]
    IN  IF a.responses = <<>> THEN stop(a) ELSE a

\* void Udp::idle(), from the return of the handler to the end: the locals
\* go out of scope, a caught std::runtime_error is dropped
idleEpilogue(w) == [w EXCEPT !.pc = "loop"]

\* a send() that transmits the query and drains the socket afterwards
sendAddressTransmitsFirst(w, version, ok) ==
    LET s == sendto(w, version, ok)
    IN  IF readable(s) THEN notify(s) ELSE s

\* bool Udp::send(const struct sockaddr *address, size_t size, const Query &query)
sendAddress(w, version, ok) ==
    LET n == IF readable(w) THEN notify(w) ELSE w
    IN  sendto(n, version, ok)

\* bool Udp::send(const Ip &ip, const Query &query)
send(w, version, sockOk, sendOk) ==
    LET a == [w EXCEPT !.access = TRUE]
        o == IF a.fd < 0 THEN open(a, version, sockOk) ELSE a
    IN  IF a.fd < 0 /\ ~o.ret THEN [o EXCEPT !.ret = FALSE]
        ELSE sendAddress(o, version, sendOk)

(***************************************************************************)
(* History kept for the properties: the batch that the last drain into an  *)
(* empty queue captured, and the number of idle() calls made since.  A     *)
(* later capture, the destruction of the instance, or an idle() call after *)
(* the one that found the batch delivered, ends the record.                *)
(***************************************************************************)
NoRun == [items |-> <<>>, ticks |-> 0]

NextRun(w, name) ==
    IF ~w.alive THEN NoRun
    ELSE IF name = "idle"
         THEN IF run.items # <<>> /\ run.ticks <= Len(run.items)
              THEN [run EXCEPT !.ticks = @ + 1]
              ELSE NoRun
         ELSE IF Len(w.responses) > Len(_responses)
              THEN IF _responses = <<>>
                   THEN [items |-> w.responses, ticks |-> 0]
                   ELSE NoRun
              ELSE run

\* the step's effect: the world w that operation `name` has produced
Commit(w, name) ==
    /\ alive' = w.alive
    /\ _fd' = w.fd
    /\ _identifier' = w.identifier
    /\ _idle' = w.idle
    /\ _responses' = w.responses
    /\ family' = w.family
    /\ sock' = w.sock
    /\ descriptors' = w.descriptors
    /\ readers' = w.readers
    /\ idlers' = w.idlers
    /\ misuse' = w.misuse
    /\ delivered' = w.delivered
    /\ sendtoCalls' = w.sendtoCalls
    /\ transmitted' = w.transmitted
    /\ pc' = w.pc
    /\ uaf' = (uaf \/ (w.access /\ ~alive))
    /\ op' = [name |-> name, ret |-> w.ret, failed |-> w.failed,
              again |-> (op.name = name), prevRet |-> op.ret,
              dest |-> w.dest, queuedAtSend |-> w.queuedAtSend,
              received |-> w.received,
              captured |-> IF Len(w.responses) > Len(_responses)
                           THEN Len(w.responses) - Len(_responses) ELSE 0]
    /\ run' = NextRun(w, name)

(***************************************************************************)
(* The state after Udp::Udp(core, handler).                                *)
(***************************************************************************)
Init ==
    /\ alive = TRUE
    /\ MemberDefaults
    /\ family = 0
    /\ sock = <<>>
    /\ descriptors = 0
    /\ readers = {}
    /\ idlers = {}
    /\ misuse = FALSE
    /\ delivered = <<>>
    /\ sendtoCalls = 0
    /\ transmitted = 0
    /\ arrived = 0
    /\ pc = "loop"
    /\ uaf = FALSE
    /\ op = [name |-> "new", ret |-> FALSE, failed |-> FALSE,
             again |-> FALSE, prevRet |-> FALSE,
             dest |-> 0, queuedAtSend |-> -1, received |-> 0, captured |-> 0]
    /\ run = NoRun

(***************************************************************************)
(* Calls made by the owner of the instance: from its own code between the  *)
(* loop's callbacks (pc = "loop") or from inside onReceived()              *)
(* (pc = "handler").                                                       *)
(***************************************************************************)
Open(version) ==
    /\ alive /\ ~uaf
    /\ \E ok \in BOOLEAN : Commit(open(World, version, ok), "open")
    /\ UNCHANGED arrived

Close ==
    /\ alive /\ ~uaf
    /\ Commit(close(World), "close")
    /\ UNCHANGED arrived

Send(version) ==
    /\ alive /\ ~uaf
    /\ sendtoCalls < MaxSends
    /\ \E sockOk \in BOOLEAN, sendOk \in BOOLEAN :
           Commit(send(World, version, sockOk, sendOk), "send")
    /\ UNCHANGED arrived

Destroy ==
    /\ alive /\ ~uaf
    /\ Commit(destructor(World), "destroy")
    /\ UNCHANGED arrived

(***************************************************************************)
(* Calls made by the event loop.                                           *)
(***************************************************************************)
\* the registered descriptor is readable: the loop calls notify()
LoopNotify ==
    /\ pc = "loop" /\ ~uaf
    /\ readers # {} /\ sock # <<>>
    /\ Commit(notify(World), "notify")
    /\ UNCHANGED arrived

\* user space calls notify() although nothing can be read: a readiness that
\* was reported before the datagram was dropped or the socket closed
StrayNotify ==
    /\ pc = "loop" /\ ~uaf /\ alive
    /\ ~(readers # {} /\ sock # <<>>)
    /\ Commit(notify(World), "notify")
    /\ UNCHANGED arrived

\* an idle watcher is registered: the loop calls idle()
LoopIdle ==
    /\ pc = "loop" /\ ~uaf
    /\ idlers # {}
    /\ Commit(idle(World), "idle")
    /\ UNCHANGED arrived

\* onReceived() returns (or throws) into idle()
HandlerReturn ==
    /\ pc = "handler" /\ ~uaf
    /\ Commit(idleEpilogue(World), "return")
    /\ UNCHANGED arrived

(***************************************************************************)
(* The network: a datagram reaches the socket.  Its source address has the *)
(* socket's family.                                                        *)
(***************************************************************************)
Arrive ==
    /\ ~uaf
    /\ descriptors > 0
    /\ arrived < MaxArrivals
    /\ \E size \in PayloadSizes :
           Commit([World EXCEPT !.sock =
                       Append(@, [id |-> arrived + 1, size |-> size, family |-> family])],
                  "arrive")
    /\ arrived' = arrived + 1

Next ==
    \/ \E version \in Versions : Open(version)
    \/ Close
    \/ \E version \in Versions : Send(version)
    \/ Destroy
    \/ LoopNotify
    \/ StrayNotify
    \/ LoopIdle
    \/ HandlerReturn
    \/ Arrive

Spec == Init /\ [][Next]_vars

(***************************************************************************)
(* The drain at its cap: a burst of about MaxMessages datagrams reaches    *)
(* the socket that the owner has opened (after at most MaxArrivals single  *)
(* ones), and the loop goes on calling notify() and idle().  The           *)
(* behaviours are cut after MaxArrivals deliveries: what the drain does    *)
(* with the receive queue does not depend on how far the delivery has      *)
(* come.                                                                   *)
(***************************************************************************)
BurstSizes == {MaxMessages - 1, MaxMessages, MaxMessages + 1}

Burst ==
    /\ ~uaf
    /\ descriptors > 0
    /\ arrived <= MaxArrivals
    /\ \E k \in BurstSizes :
           /\ Commit([World EXCEPT !.sock = @ \o
                         [i \in 1..k |-> [id |-> arrived + i, size |-> 12,
                                         family |-> family]]],
                     "arrive")
           /\ arrived' = arrived + k

NextCap ==
    \/ \E version \in Versions : Open(version)
    \/ LoopNotify
    \/ Len(delivered) < MaxArrivals /\ LoopIdle
    \/ HandlerReturn
    \/ Arrive
    \/ Burst

SpecCap == Init /\ [][NextCap]_vars

(***************************************************************************)
(* A caller that sends, a peer that answers every query that was put on    *)
(* the wire with one DNS message, and an event loop that keeps calling     *)
(* notify() while the registered socket is readable and idle() while a     *)
(* watcher is armed; the handler returns.  The transport is neither closed *)
(* nor destroyed.                                                          *)
(***************************************************************************)
Reply ==
    /\ ~uaf
    /\ descriptors > 0
    /\ arrived < transmitted
    /\ Commit([World EXCEPT !.sock =
                   Append(@, [id |-> arrived + 1, size |-> 12, family |-> family])],
              "arrive")
    /\ arrived' = arrived + 1

NextLive ==
    \/ \E version \in Versions : Open(version)
    \/ \E version \in Versions : Send(version)
    \/ Reply
    \/ LoopNotify
    \/ LoopIdle
    \/ HandlerReturn

LiveSpec ==
    /\ Init /\ [][NextLive]_vars
    /\ WF_vars(Reply)
    /\ WF_vars(LoopNotify)
    /\ WF_vars(LoopIdle)
    /\ WF_vars(HandlerReturn)

(***************************************************************************)
(* The same, with datagrams whose stored source address has a family that  *)
(* Ip cannot reconstruct.  The sockets open() makes do not yield them;     *)
(* idle() is written to survive them.                                      *)
(***************************************************************************)
ArriveMalformed ==
    /\ ~uaf
    /\ descriptors > 0
    /\ arrived < MaxArrivals
    /\ Commit([World EXCEPT !.sock =
                   Append(@, [id |-> arrived + 1, size |-> 12, family |-> 0])],
              "arrive")
    /\ arrived' = arrived + 1

NextMalformed ==
    \/ \E version \in Versions : Open(version)
    \/ Close
    \/ \E version \in Versions : Send(version)
    \/ Destroy
    \/ LoopNotify
    \/ StrayNotify
    \/ LoopIdle
    \/ HandlerReturn
    \/ Arrive
    \/ ArriveMalformed

SpecMalformed == Init /\ [][NextMalformed]_vars

(***************************************************************************)
(* The transport under a handler that re-enters it: one more datagram than *)
(* MaxArrivals may arrive, each with a payload, so that a drain run inside *)
(* the handler finds items queued before it.                               *)
(***************************************************************************)
ArriveMore ==
    /\ ~uaf
    /\ descriptors > 0
    /\ arrived < MaxArrivals + 1
    /\ Commit([World EXCEPT !.sock =
                   Append(@, [id |-> arrived + 1, size |-> 12, family |-> family])],
              "arrive")
    /\ arrived' = arrived + 1

NextReentry ==
    \/ \E version \in Versions : Open(version)
    \/ Close
    \/ \E version \in Versions : Send(version)
    \/ LoopNotify
    \/ LoopIdle
    \/ HandlerReturn
    \/ ArriveMore

SpecReentry == Init /\ [][NextReentry]_vars

(***************************************************************************)
(* Properties.                                                             *)
(***************************************************************************)
Members == <<_fd, _identifier, _idle, _responses>>

Registrations == <<readers, idlers, misuse>>

Kernel == <<family, sock, descriptors, sendtoCalls, transmitted>>

\* the last n elements of sequence q
Last(q, n) == SubSeq(q, Len(q) - n + 1, Len(q))

\* C1: when one drain has captured N >= 1 datagrams into an empty queue (and
\* nothing is captured afterwards), each of the next N idle() calls hands one
\* of them to the handler, in arrival order, and leaves the watcher armed,
\* also the N-th, which leaves the queue empty; the (N+1)-th finds the queue
\* empty, hands over nothing and cancels the watcher.
C1_BatchDeliveredInOrderThenDisarm ==
    [][(op'.name = "idle" /\ run.items # <<>> /\ run.ticks <= Len(run.items)) =>
        IF run.ticks < Len(run.items)
        THEN /\ delivered' = Append(delivered, run.items[run.ticks + 1])
             /\ pc' = "handler"
             /\ Len(_responses') = Len(run.items) - run.ticks - 1
             /\ _idle # 0 /\ _idle' = _idle
             /\ idlers' = {_idle}
        ELSE /\ _responses = <<>> /\ _responses' = <<>>
             /\ delivered' = delivered
             /\ pc' = "loop"
             /\ _idle # 0 /\ _idle' = 0
             /\ idlers' = {}]_vars

\* a batch of two has been delivered by two idle() calls and the third has
\* just cancelled the watcher
C1_Witness ==
    /\ op.name = "idle"
    /\ Len(run.items) = 2 /\ run.ticks = 3
    /\ Last(delivered, 2) = run.items
    /\ _idle = 0 /\ idlers = {}

\* C2: idle() has taken the item out of the queue when it calls the handler,
\* and what it does once the handler has returned touches no member of the
\* instance, no registration and no descriptor - also when the handler has
\* destroyed the instance, in which case no destroyed member is accessed.
C2_NothingAfterHandler ==
    [][/\ (op'.name = "idle" /\ pc' = "handler") =>
              /\ _responses' = Tail(_responses)
              /\ delivered' = Append(delivered, Head(_responses))
              /\ \A i \in DOMAIN _responses' : _responses'[i].id # Head(_responses).id
       /\ op'.name = "return" =>
              /\ ~uaf'
              /\ UNCHANGED <<alive, Members, Registrations, Kernel, delivered>>]_vars

\* the handler destroyed the instance during the delivery and idle() has returned
C2_Witness ==
    /\ op.name = "return"
    /\ ~alive /\ ~uaf
    /\ pc = "loop"
    /\ delivered # <<>>

\* C4: close() on an open socket returns true, removes the one read-interest
\* registration and releases the descriptor; close() on a closed socket -
\* the second of two close() calls in particular - returns false and changes
\* nothing.
C4_CloseIdempotent ==
    [][op'.name = "close" =>
        IF _fd >= 0
        THEN /\ op'.ret
             /\ _identifier \in readers /\ readers' = readers \ {_identifier}
             /\ descriptors' = descriptors - 1
             /\ _fd' < 0 /\ _identifier' = 0
             /\ ~misuse'
        ELSE /\ ~op'.ret
             /\ UNCHANGED <<alive, Members, Registrations, Kernel, delivered, pc, uaf>>]_vars

\* close() has just returned false right after a close() that returned true
C4_Witness ==
    /\ op.name = "close" /\ ~op.ret
    /\ op.again /\ op.prevRet
    /\ readers = {} /\ descriptors = 0

\* C5: send() on a closed socket whose socket() call fails returns false and
\* changes nothing: no registration, no token, no descriptor, no drain, no
\* transmit; the queue and the idle watcher stay as they were.
C5_SendOpenFailureNoEffect ==
    [][(op'.name = "send" /\ _fd < 0 /\ op'.failed) =>
        /\ ~op'.ret
        /\ UNCHANGED <<alive, Members, Registrations, Kernel, delivered, pc, uaf>>]_vars

\* send() has just failed to open the socket, with datagrams still queued
C5_Witness ==
    /\ op.name = "send" /\ op.failed /\ ~op.ret
    /\ _fd < 0 /\ readers = {}
    /\ _responses # <<>> /\ _idle # 0

\* C6: the registration token is present iff the descriptor is open, and the
\* loop holds exactly this one read-interest registration when the socket is
\* open and none when it is closed or the instance destroyed.
C6_TokenIffOpen ==
    /\ alive => ((_identifier # 0) <=> (_fd >= 0))
    /\ readers = IF alive /\ _fd >= 0 THEN {_identifier} ELSE {}
    /\ descriptors = IF alive /\ _fd >= 0 THEN 1 ELSE 0

\* an open() has just failed on a socket that had been open and closed before
C6_Witness ==
    /\ op.name = "open" /\ op.failed /\ ~op.ret
    /\ alive /\ _fd < 0 /\ _identifier = 0 /\ readers = {}
    /\ delivered # <<>>

\* C7: while the instance lives, a non-empty queue has its idle watcher armed.
C7_QueuedImpliesArmed ==
    (alive /\ _responses # <<>>) => (_idle # 0 /\ _idle \in idlers)

\* the handler has closed the socket from inside onReceived() while another
\* datagram is queued
C7_Witness ==
    /\ alive /\ pc = "handler"
    /\ op.name = "close" /\ op.ret
    /\ _responses # <<>>

\* C8: the loop never holds more than one idle watcher of the instance, the
\* one _idle names; no watcher is cancelled twice and none is left behind.
C8_OneIdleWatcher ==
    /\ Cardinality(idlers) <= 1
    /\ ~misuse
    /\ idlers = IF alive /\ _idle # 0 THEN {_idle} ELSE {}

\* notify() has run twice in a row on an open socket, adding to a queue whose
\* watcher was armed
C8_Witness ==
    /\ op.name = "notify" /\ op.again
    /\ _fd >= 0
    /\ Len(_responses) = 2 /\ run = NoRun
    /\ Cardinality(idlers) = 1

\* C9: close() leaves the queue and the idle watcher as they are; with the
\* socket closed idle() goes on handing the front of the queue to the
\* handler; the destructor leaves neither a read interest nor an idle
\* watcher, and nothing is handed to the handler of a destroyed instance.
C9_CloseKeepsQueueDestroyEndsDelivery ==
    [][/\ op'.name = "close" =>
              UNCHANGED <<_responses, _idle, idlers, delivered>>
       /\ (op'.name = "idle" /\ alive /\ _fd < 0 /\ _responses # <<>>) =>
              /\ delivered' = Append(delivered, Head(_responses))
              /\ _responses' = Tail(_responses)
              /\ _idle' = _idle /\ idlers' = idlers
       /\ ~alive' => (readers' = {} /\ idlers' = {} /\ ~uaf')
       /\ ~alive => delivered' = delivered]_vars

\* idle() has handed the second of two datagrams to the handler with the
\* socket closed: it was captured before the close()
C9_Witness ==
    /\ op.name = "idle"
    /\ alive /\ _fd < 0 /\ descriptors = 0
    /\ pc = "handler"
    /\ Len(delivered) = 2 /\ arrived = 2

\* C3: a drain (notify(), also when send() has called it) appends at most
\* MaxMessages datagrams, the first ones of the receive queue in their order;
\* when it stops at the cap the datagrams behind them stay in the receive
\* queue, in order, for the next drain; when it stops earlier it has emptied
\* the queue or met an empty datagram, which it has removed.
C3_DrainCapped ==
    [][op'.name \in {"notify", "send"} =>
        LET k == Len(_responses') - Len(_responses)
        IN  /\ 0 <= k /\ k <= MaxMessages /\ k <= Len(sock)
            /\ _responses' = _responses \o SubSeq(sock, 1, k)
            /\ k = MaxMessages => sock' = SubSeq(sock, k + 1, Len(sock))
            /\ k < MaxMessages =>
                   \/ sock' = <<>> /\ k = Len(sock)
                   \/ /\ k < Len(sock) /\ sock[k + 1].size = 0
                      /\ sock' = SubSeq(sock, k + 2, Len(sock))]_vars

\* MaxMessages + 1 datagrams were on the socket; a first notify() has
\* captured MaxMessages of them and a second one, right after, the last
C3_Witness ==
    /\ op.name = "notify" /\ op.again
    /\ arrived = MaxMessages + 1
    /\ Len(_responses) = MaxMessages + 1
    /\ _responses[MaxMessages + 1].id = MaxMessages + 1
    /\ sock = <<>>

\* C10: under the fair loop, with a peer that answers every transmitted
\* query, eventually and from then on the handler has received exactly as
\* many responses as queries were transmitted: every reply, once, in the
\* order of arrival.
C10_EveryReplyDelivered ==
    <>[](/\ Len(delivered) = transmitted
         /\ \A i \in DOMAIN delivered : delivered[i].id = i)

\* MaxSends queries went out and the reply to each has been delivered, in order
C10_Witness ==
    /\ transmitted = MaxSends
    /\ Len(delivered) = MaxSends
    /\ \A i \in DOMAIN delivered : delivered[i].id = i
    /\ _responses = <<>> /\ sock = <<>>

\* C11: open() on an open socket returns true and changes nothing: no
\* descriptor is made and nothing is registered.  On a closed socket it
\* returns false exactly when socket() fails, and then changes nothing; else
\* it returns true with one descriptor more and the one registration.
C11_OpenIdempotent ==
    [][op'.name = "open" =>
        IF _fd >= 0
        THEN /\ op'.ret /\ ~op'.failed
             /\ UNCHANGED <<alive, Members, Registrations, Kernel, delivered, pc, uaf>>
        ELSE /\ op'.ret <=> ~op'.failed
             /\ op'.failed =>
                    UNCHANGED <<alive, Members, Registrations, Kernel, delivered, pc, uaf>>
             /\ op'.ret =>
                    /\ _fd' >= 0 /\ descriptors' = descriptors + 1
                    /\ _identifier' # 0 /\ readers' = {_identifier'}]_vars

\* open() has just returned true for the second time in a row: one
\* descriptor, one registration
C11_Witness ==
    /\ op.name = "open" /\ op.ret
    /\ op.again /\ op.prevRet
    /\ descriptors = 1 /\ Cardinality(readers) = 1

\* C12 (as claimed): when send() reaches sendto(), the socket has the family
\* of the destination.
C12_SocketMatchesTarget ==
    [][(op'.name = "send" /\ op'.dest # 0) => family' = op'.dest]_vars

\* C13: when the source address of the front item cannot be reconstructed,
\* idle() returns normally without calling the handler: the item is gone
\* from the queue, the rest of the queue is as it was, the watcher stays
\* armed; an idle() call whose front item is well-formed hands it to the
\* handler.
C13_MalformedDropped ==
    [][(op'.name = "idle" /\ alive /\ _responses # <<>>) =>
        IF ipThrows(Head(_responses))
        THEN /\ delivered' = delivered
             /\ pc' = "loop"
             /\ _responses' = Tail(_responses)
             /\ _idle # 0 /\ _idle' = _idle /\ idlers' = idlers
             /\ UNCHANGED <<alive, _fd, _identifier, readers, misuse, Kernel, uaf>>
        ELSE /\ delivered' = Append(delivered, Head(_responses))
             /\ _responses' = Tail(_responses)]_vars

\* the first datagram had a malformed source and was dropped by an idle()
\* call; the next idle() call has handed the second one to the handler
C13_Witness ==
    /\ op.name = "idle" /\ pc = "handler"
    /\ arrived = 2
    /\ Len(delivered) = 1 /\ delivered[1].id = 2 /\ delivered[1].family # 0
    /\ run.ticks = 2 /\ Len(run.items) = 2 /\ run.items[1].family = 0
    /\ _idle # 0

\* C14: an idle() call that finds the queue non-empty takes exactly the
\* front item out of it and calls the handler at most once, with that item;
\* the items behind it stay queued in their order.
C14_OneItemPerIdle ==
    [][(op'.name = "idle" /\ alive /\ _responses # <<>>) =>
        /\ Len(_responses') = Len(_responses) - 1
        /\ \A i \in DOMAIN _responses' : _responses'[i] = _responses[i + 1]
        /\ \/ delivered' = delivered
           \/ delivered' = Append(delivered, Head(_responses))]_vars

\* idle() has handed the first of two queued datagrams to the handler and
\* the second is still queued
C14_Witness ==
    /\ op.name = "idle" /\ pc = "handler"
    /\ Len(delivered) = 1 /\ delivered[1].id = 1
    /\ Len(_responses) = 1 /\ _responses[1].id = 2
    /\ _idle # 0

\* C15 (as claimed), for the calls made while the socket is readable: a
\* disarmed watcher becomes armed only in a step whose drain captured a
\* datagram.
C15_ArmedOnlyByCapture ==
    [][(_idle = 0 /\ _idle' # 0 /\ sock # <<>>) =>
        (op'.name \in {"notify", "send"} /\ op'.captured >= 1)]_vars

\* C15 (amended): a disarmed watcher becomes armed only in notify() on an
\* open socket - called by the loop or a caller, or by send() when the
\* socket is readable - and then always, whether or not the drain captured
\* a datagram; notify() on a closed socket leaves it disarmed; the next
\* idle() that finds the queue empty cancels it.
C15_ArmedByNotifyOnOpenSocket ==
    [][/\ (_idle = 0 /\ _idle' # 0) => op'.name \in {"notify", "send"}
       /\ (op'.name = "notify" /\ alive /\ _idle = 0) =>
              ((_idle' # 0) <=> (_fd >= 0))
       /\ (op'.name = "send" /\ _idle = 0) =>
              ((_idle' # 0) <=> (_fd >= 0 /\ sock # <<>>))
       /\ (op'.name = "idle" /\ alive /\ _responses = <<>>) =>
              (_idle' = 0 /\ idlers' = {})]_vars

\* notify() has armed the watcher on an open socket although nothing has
\* ever been captured: the one datagram that arrived was empty
C15_Witness ==
    /\ op.name = "notify" /\ op.captured = 0
    /\ alive /\ _fd >= 0
    /\ _idle # 0 /\ idlers = {_idle}
    /\ arrived = 1 /\ sock = <<>>
    /\ _responses = <<>> /\ delivered = <<>>

\* C16: the drain - notify(), called by the loop or inside send() - only
\* appends to the tail of the pending queue and possibly arms the watcher:
\* no handler call, the queued items stay where they are, the descriptor
\* and the registration token stay (send() changes them only by opening a
\* closed socket, and then does not drain).
C16_DrainOnlyAppends ==
    [][(op'.name \in {"notify", "send"} /\ alive) =>
        /\ delivered' = delivered /\ pc' = pc
        /\ Len(_responses') = Len(_responses) + op'.captured
        /\ \A i \in DOMAIN _responses : _responses'[i] = _responses[i]
        /\ _idle' = _idle \/ (_idle = 0 /\ _idle' # 0)
        /\ (op'.name = "notify" \/ _fd >= 0) =>
               UNCHANGED <<_fd, _identifier, readers, descriptors, family>>
        /\ (op'.name = "send" /\ _fd < 0) =>
               (_responses' = _responses /\ _idle' = _idle)]_vars

\* send(), called from inside the handler, has drained a datagram behind
\* the one that was already queued
C16_Witness ==
    /\ op.name = "send" /\ op.captured = 1
    /\ pc = "handler" /\ Len(delivered) = 1
    /\ Len(_responses) = 1 /\ _responses[1].id = 2
    /\ _fd >= 0 /\ _idle # 0

\* the number of datagrams at the head of the receive queue q that one
\* drain captures: those before the first empty one, MaxMessages at most
Captures(q) ==
    LET n == CHOOSE n \in 0..Len(q) :
                 /\ \A i \in 1..n : q[i].size > 0
                 /\ n = Len(q) \/ q[n + 1].size <= 0
    IN  IF n < MaxMessages THEN n ELSE MaxMessages

\* C17: in send(), the drain runs to completion before the transmit: what
\* it captures from a readable socket is in the pending queue when the
\* query is transmitted; one transmit is attempted per send() that got
\* past open, none otherwise; send() returns true iff that transmit
\* reported a non-negative byte count.
C17_DrainThenOneTransmit ==
    [][op'.name = "send" =>
        /\ IF _fd' >= 0
           THEN /\ sendtoCalls' = sendtoCalls + 1
                /\ op'.queuedAtSend = Len(_responses')
                /\ op'.ret <=> transmitted' = transmitted + 1
                /\ ~op'.ret => transmitted' = transmitted
           ELSE /\ sendtoCalls' = sendtoCalls /\ transmitted' = transmitted
                /\ ~op'.ret /\ op'.failed
        /\ IF _fd >= 0
           THEN /\ _responses' = _responses \o SubSeq(sock, 1, Captures(sock))
                /\ _fd' = _fd
           ELSE _responses' = _responses]_vars

\* send() has drained two datagrams from a readable socket and then
\* transmitted the query
C17_Witness ==
    /\ op.name = "send" /\ op.ret /\ op.captured = 2
    /\ op.queuedAtSend = 2 /\ Len(_responses) = 2
    /\ sendtoCalls = 1 /\ transmitted = 1

\* C18: once the instance is destroyed, no read-interest registration and
\* no idle watcher of it is registered and its descriptor is released; no
\* registration was removed that was not there; the loop never calls into
\* the destroyed instance.
C18_DestroyLeavesNothing ==
    /\ ~alive => (readers = {} /\ idlers = {} /\ descriptors = 0 /\ sock = <<>>)
    /\ ~misuse
    /\ ~uaf

\* destroyed from inside the handler, with the socket open (a datagram had
\* arrived behind the drained ones), the watcher armed and an item queued
C18_Witness ==
    /\ ~alive /\ op.name = "destroy"
    /\ pc = "handler" /\ _responses # <<>>
    /\ Len(delivered) = 1 /\ arrived = 2
    /\ readers = {} /\ idlers = {}

\* the identities of the items of q, in order
Ids(q) == [i \in DOMAIN q |-> q[i].id]

\* C19: every captured datagram is handed to the handler at most once and
\* in the order of capture, also when the handler re-enters the transport:
\* the items delivered so far followed by the items still queued are in
\* strictly increasing order of arrival, so the item being delivered is not
\* in the queue, and what a re-entrant drain appends lies behind the rest.
C19_AtMostOnceInOrder ==
    LET all == Ids(delivered \o _responses)
    IN  \A i \in DOMAIN all : \A j \in DOMAIN all : i < j => all[i] < all[j]

\* inside the handler called for item 1, with item 2 queued, send() has
\* drained item 3 behind item 2
C19_Witness ==
    /\ pc = "handler" /\ op.name = "send" /\ op.captured = 1
    /\ Ids(delivered) = <<1>>
    /\ Ids(_responses) = <<2, 3>>

\* C20: notify() on a closed socket changes nothing and attempts no receive.
C20_NotifyClosedNoOp ==
    [][(op'.name = "notify" /\ alive /\ _fd < 0) =>
        /\ op'.received = 0 /\ op'.captured = 0
        /\ UNCHANGED <<alive, Members, Registrations, Kernel, delivered,
                       sendtoCalls, transmitted, pc, uaf>>]_vars

\* notify() was called on a closed socket whose watcher is armed and whose
\* queue holds an item
C20_Witness ==
    /\ op.name = "notify" /\ op.received = 0
    /\ alive /\ _fd < 0 /\ _identifier = 0
    /\ _idle # 0 /\ idlers = {_idle}
    /\ _responses # <<>>

====
